---- MODULE Spec2Model ----
(***************************************************************************)
(* Model of the batch orchestrator of node-script/processAll.js (main and  *)
(* processArticle) together with the article store it reads and writes     *)
(* (ArticleController index/store as listed in README.md).                 *)
(*                                                                         *)
(* One behaviour is a sequence of non-overlapping batch runs over one      *)
(* store.  The external services (search, page fetch, generation, publish) *)
(* are the environment: each item's environment outcome is drawn with \E.  *)
(*                                                                         *)
(* The services are also studied one call at a time (ServiceSpec):         *)
(* performGapAnalysis and enhanceArticle of services/llmEnhancer.js,       *)
(* searchRelatedArticles and isBlogOrArticle of services/googleSearcher.js,*)
(* scrapeArticleContent and scrapeMultipleArticles of contentScraper.js,   *)
(* generateCitations and processArticle of processAll.js, and main and     *)
(* processArticle of index.js.                                             *)
(***************************************************************************)
EXTENDS Integers, Sequences, FiniteSets, TLC

(* ------------------------------ bounds -------------------------------- *)
\* largest number of original articles in the store
MaxArticles == 11
\* number of batch runs in one behaviour
MaxRuns == 2
\* number of times the environment deviates from the nominal outcome
MaxFaults == 1
\* largest number of original articles under the fair specification
MaxLiveArticles == 3
\* largest number of raw results in one answer of a search provider
MaxRaw == 2
\* largest count asked of searchRelatedArticles
MaxCount == 2
\* largest number of candidates handed to scrapeMultipleArticles
MaxDocs == 2
\* largest number of blocks in a source body
MaxBlocks == 3

(* ------------------------- program constants -------------------------- *)
COMPETITOR_COUNT == 2
SuccessCap == 10
\* a missing original_url (nullable column)
NoUrl == 0

\* The original_url of the first originals, drawn at Init: all distinct, a
\* missing one, two originals sharing one.  Later originals have distinct urls.
UrlPrefixes == { <<1, 2>>, <<NoUrl, 2>>, <<1, 1>> }

(* ---------------------- messages of thrown errors --------------------- *)
MsgNoCompetitors == "No competitors found"
MsgScrapingFailed == "Scraping failed"
MsgConfig == "GROQ_API_KEY is not set. Get a free key at https://console.groq.com/keys"
MsgGeneration == "generation request failed"
MsgInvalidUrl == "Invalid URL"
MsgPublish == "Request failed with status code 422"

VARIABLES
    originals,            \* store: articles with status 'original', in listing order
    updated,              \* store: original_url of each article with status 'updated'
    keySet,               \* GROQ_API_KEY is set and is not the placeholder
    run,                  \* number of runs started
    summaries,            \* number of runs that printed their summary
    pc,                   \* position of main: idle, fetched, loop, summary, done, aborted
    articles,             \* main: const articles
    alreadyEnhancedUrls,  \* main: the dedup set
    articlesToProcess,    \* main: const articlesToProcess
    i,                    \* main: loop index (1-based)
    results,              \* main: const results
    attempted,            \* articles handed to processArticle in this run, in order
    trace,                \* stages called for the item processed last
    published,            \* articles published in this run, in order
    slept,                \* loop indices after which the pacing delay ran
    lastPayload,          \* body of the last POST /articles
    lastResult,           \* value returned by the last processArticle call
    updatedAtStart,       \* original_urls of the derived articles when the run started
    dedupFetched,         \* the derived-article fetch of this run succeeded
    faults,               \* deviations injected by the environment so far
    call                  \* the service call under study: its inputs, progress and result

vars == << originals, updated, keySet, run, summaries, pc, articles, alreadyEnhancedUrls,
           articlesToProcess, i, results, attempted, trace, published, slept,
           lastPayload, lastResult, updatedAtStart, dedupFetched, faults, call >>

batchVars == << originals, updated, keySet, run, summaries, pc, articles,
               alreadyEnhancedUrls, articlesToProcess, i, results, attempted, trace,
               published, slept, lastPayload, lastResult, updatedAtStart,
               dedupFetched, faults >>

(* ------------------------------ helpers ------------------------------- *)
Range(s) == { s[k] : k \in 1..Len(s) }
Last(s) == s[Len(s)]

\* JavaScript truthiness of a url: null/undefined/'' are falsy
Truthy(u) == u # NoUrl

\* The k-th original of the store: title k (required) and the nullable
\* columns; the featured image of the even rows is null.
ArticleRow(k, url) ==
    [title |-> k, original_url |-> url,
     excerpt |-> 100 + k, author |-> 200 + (k % 2), published_at |-> 300 + k,
     featured_image |-> IF k % 2 = 0 THEN 0 ELSE 400 + k]

EmptyResults == [success |-> 0, failed |-> 0, skipped |-> 0, errors |-> << >>]
NoPayload == [status |-> "none", original_url |-> NoUrl, title |-> 0,
              excerpt |-> 0, author |-> 0, published_at |-> 0, featured_image |-> 0,
              gap_analysis |-> [error |-> FALSE],
              competitor_articles |-> 0, references |-> 0]
NoResult == [success |-> FALSE, reason |-> "none"]
NoCall == [fn |-> "none"]

(* ------------------- environment outcomes of one item ------------------ *)
\* search  : number of candidates searchRelatedArticles returns
\* scraped : number of documents scrapeMultipleArticles returns
\* gap     : response of the generative service to the gap-analysis prompt
\* enhance, cite, publish : the call returns (TRUE) or throws (FALSE)
\* a value of a JSON field of the analysis: absent, null, an array, a number
\* (in tenths, so that 7.5 is 75) or a string holding a number
Absent == [t |-> "absent", v |-> << >>, tenths |-> 0]
Null == [t |-> "null", v |-> << >>, tenths |-> 0]
List(items) == [t |-> "list", v |-> items, tenths |-> 0]
Num(tenths) == [t |-> "num", v |-> << >>, tenths |-> tenths]
Str(tenths) == [t |-> "str", v |-> << >>, tenths |-> tenths]

ListValues == { Absent, List(<< >>), List(<< "topic" >>) }
ScoreValues == { Absent, Null, Num(0), Num(70), Num(100), Num(110), Num(-10),
                 Num(75), Str(80) }

\* the parsed JSON object of a response
Analyses == [missing : ListValues, improve : ListValues, strengths : ListValues,
             keywords_missing : ListValues, overall_score : ScoreValues,
             recommendations : ListValues]

EmptyObject == [missing |-> Absent, improve |-> Absent, strengths |-> Absent,
                keywords_missing |-> Absent, overall_score |-> Absent,
                recommendations |-> Absent]

FullObject == [missing |-> List(<< "topic" >>), improve |-> List(<< "topic" >>),
               strengths |-> List(<< "topic" >>), keywords_missing |-> List(<< "topic" >>),
               overall_score |-> Num(70), recommendations |-> List(<< "topic" >>)]

\* A response of the generative service to the gap-analysis prompt.
\* kind : "fail" (the request throws) or "text" (a completion came back)
\* text : the completion as tokens; "BODY" stands for the JSON text,
\*        "FENCE_JSON" and "FENCE" for the opening and closing code fence
\* json : "object" (BODY is a JSON object), "null" (BODY is the JSON null),
\*        "garbage" (BODY is not JSON)
Texts == { << >>, << "BODY" >>,
           << "FENCE_JSON", "NL", "BODY", "NL", "FENCE" >>,
           << "FENCE", "NL", "BODY", "NL", "FENCE" >>,
           << "prose", "BODY" >> }

FailedCall == [kind |-> "fail", text |-> << >>, json |-> "garbage", object |-> EmptyObject]

AllGapResponses ==
    { FailedCall }
    \cup [kind : {"text"}, text : Texts, json : {"object"}, object : Analyses]
    \cup [kind : {"text"}, text : Texts, json : {"null", "garbage"}, object : {EmptyObject}]

NominalGap == [kind |-> "text", text |-> << "BODY" >>, json |-> "object",
               object |-> FullObject]

\* a reply that is prose around the JSON: JSON.parse rejects it
MalformedGap == [kind |-> "text", text |-> << "prose", "BODY" >>, json |-> "object",
                 object |-> FullObject]
GapResponses == { NominalGap, FailedCall, MalformedGap }

\* Outcomes that differ only in the answer of a call processArticle never
\* makes, or whose answer it discards, are represented once.
Outcomes == { o \in [search : 0..COMPETITOR_COUNT, scraped : 0..COMPETITOR_COUNT,
                     gap : GapResponses, enhance : BOOLEAN, cite : BOOLEAN,
                     publish : BOOLEAN] :
                /\ o.scraped <= o.search
                /\ o.scraped = 0 => o.gap = NominalGap /\ o.enhance
                /\ ~o.enhance => o.gap = NominalGap /\ o.cite
                /\ ~o.cite => o.gap = NominalGap /\ o.publish }

Nominal == [search |-> COMPETITOR_COUNT, scraped |-> COMPETITOR_COUNT,
            gap |-> NominalGap,
            enhance |-> TRUE, cite |-> TRUE, publish |-> TRUE]

(* -------------------------- llmEnhancer.js ---------------------------- *)
\* initializeClient without the credential check
initializeClient_NoCheck(key) == "client"

\* initializeClient throws when the key is missing or the placeholder
initializeClient(key) == IF key THEN "client" ELSE "throw"

\* String.replace(fence + optional newline, ''), for every occurrence
RECURSIVE StripFence(_, _)
StripFence(text, fence) ==
    IF text = << >> THEN << >>
    ELSE IF Head(text) = fence
         THEN IF Len(text) >= 2 /\ text[2] = "NL"
              THEN StripFence(SubSeq(text, 3, Len(text)), fence)
              ELSE StripFence(Tail(text), fence)
         ELSE << Head(text) >> \o StripFence(Tail(text), fence)

\* String.trim()
RECURSIVE Trim(_)
Trim(text) ==
    IF text = << >> THEN << >>
    ELSE IF Head(text) = "NL" THEN Trim(Tail(text))
    ELSE IF Last(text) = "NL" THEN Trim(SubSeq(text, 1, Len(text) - 1))
    ELSE text

\* lines 164-170: the text handed to JSON.parse
CleanAnalysisText(text) ==
    Trim(StripFence(StripFence(IF text = << >> THEN << "BODY" >> ELSE text,
                               "FENCE_JSON"), "FENCE"))

\* JavaScript falsiness of a JSON value: undefined, null, 0, '' ([] is truthy)
Falsy(val) == \/ val.t \in {"absent", "null"}
              \/ val.t = "num" /\ val.tenths = 0

\* a || b
OrDefault(val, default) == IF Falsy(val) THEN default ELSE val

\* lines 186-195: the default structure returned from the catch block
DefaultAnalysis ==
    [missing |-> List(<< "Unable to analyze - please check API key" >>),
     improve |-> List(<< >>), strengths |-> List(<< >>),
     keywords_missing |-> List(<< >>), overall_score |-> Num(0),
     recommendations |-> List(<< >>), error |-> TRUE]

\* lines 175-182: a score taken from the response without the default
BuildAnalysis_ScoreNotDefaulted(analysis) ==
    [missing |-> OrDefault(analysis.missing, List(<< >>)),
     improve |-> OrDefault(analysis.improve, List(<< >>)),
     strengths |-> OrDefault(analysis.strengths, List(<< >>)),
     keywords_missing |-> OrDefault(analysis.keywords_missing, List(<< >>)),
     overall_score |-> IF analysis.overall_score.t = "num"
                       THEN analysis.overall_score ELSE Num(0),
     recommendations |-> OrDefault(analysis.recommendations, List(<< >>)),
     error |-> FALSE]

\* lines 175-182: list fields taken from the response without the default
BuildAnalysis_ListsNotDefaulted(analysis) ==
    [missing |-> analysis.missing,
     improve |-> analysis.improve,
     strengths |-> analysis.strengths,
     keywords_missing |-> analysis.keywords_missing,
     overall_score |-> OrDefault(analysis.overall_score, Num(50)),
     recommendations |-> analysis.recommendations,
     error |-> FALSE]

\* lines 175-182: the result built from the parsed analysis
BuildAnalysis(analysis) ==
    [missing |-> OrDefault(analysis.missing, List(<< >>)),
     improve |-> OrDefault(analysis.improve, List(<< >>)),
     strengths |-> OrDefault(analysis.strengths, List(<< >>)),
     keywords_missing |-> OrDefault(analysis.keywords_missing, List(<< >>)),
     overall_score |-> OrDefault(analysis.overall_score, Num(50)),
     recommendations |-> OrDefault(analysis.recommendations, List(<< >>)),
     error |-> FALSE]

\* the catch block losing the fields of the default structure
CatchAnalysis_Bare(resp) == [DefaultAnalysis EXCEPT !.improve = Absent]

\* lines 183-196: the catch block of performGapAnalysis
CatchAnalysis(resp) == DefaultAnalysis

\* an empty completion is replaced by '{}' (line 164)
ParsedObject(resp) == IF resp.text = << >> THEN EmptyObject ELSE resp.object
ParsedJson(resp) == IF resp.text = << >> THEN "object" ELSE resp.json

\* performGapAnalysis, after initializeClient returned (lines 156-196):
\* the request throws, JSON.parse throws on anything but the JSON text, and
\* reading a property of null throws; all three land in the catch block
performGapAnalysis(resp) ==
    IF resp.kind = "fail" THEN CatchAnalysis(resp)
    ELSE IF CleanAnalysisText(resp.text) # << "BODY" >> THEN CatchAnalysis(resp)
    ELSE IF ParsedJson(resp) # "object" THEN CatchAnalysis(resp)
    ELSE BuildAnalysis(ParsedObject(resp))

\* performGapAnalysis as a whole (lines 123-197): initializeClient is called
\* before the try block
performGapAnalysisCall(key, resp) ==
    IF initializeClient(key) = "throw"
    THEN [thrown |-> TRUE, value |-> DefaultAnalysis]
    ELSE [thrown |-> FALSE, value |-> performGapAnalysis(resp)]

\* A source body is a sequence of blocks (paragraphs) of BlockChars
\* characters each; "MARK" is a paragraph wrapped in <mark> tags.
BlockChars == 50000
\* line 64: the number of characters of the body put in the prompt
PromptLimit == 100000
Blocks == { "p", "q" }

\* String.prototype.substring(0, n) on a body
Substring(content, n) ==
    SubSeq(content, 1, IF n \div BlockChars < Len(content) THEN n \div BlockChars
                       ELSE Len(content))

\* A generator that returns the body it was given in the prompt with marked
\* paragraphs inserted: one before each block whose index is in where, and
\* one at the end when Len(body) + 1 is in where.
RECURSIVE InsertMarks(_, _, _)
InsertMarks(body, where, k) ==
    IF k > Len(body) THEN (IF k \in where THEN << "MARK" >> ELSE << >>)
    ELSE (IF k \in where THEN << "MARK" >> ELSE << >>)
         \o << body[k] >> \o InsertMarks(body, where, k + 1)
Stub(promptBody, where) == InsertMarks(promptBody, where, 1)

\* enhanceArticle, lines 30-118: the content returned for a source body when
\* the request succeeds (ok) with the stub as generator, or fails
enhanceArticle(key, content, ok, where) ==
    IF initializeClient(key) = "throw" THEN [thrown |-> TRUE, content |-> << >>]
    ELSE IF ~ok THEN [thrown |-> TRUE, content |-> << >>]
    ELSE [thrown |-> FALSE, content |-> Stub(Substring(content, PromptLimit), where)]

(* ------------------------- googleSearcher.js -------------------------- *)
\* Texts (URLs, titles, hrefs) are sequences of tokens; a pattern is a
\* sequence of tokens and String.includes is a contiguous match of tokens.
Lower(tok) ==
    CASE tok = "YouTube.com" -> "youtube.com"
      [] tok = "BeyondChats.com" -> "beyondchats.com"
      [] tok = "Blog" -> "blog"
      [] tok = "How" -> "how"
      [] tok = "Guide" -> "guide"
      [] OTHER -> tok

\* String.prototype.toLowerCase
toLowerCase(text) == [k \in 1..Len(text) |-> Lower(text[k])]

\* String.prototype.includes
Includes(text, pattern) ==
    \E k \in 0..(Len(text) - Len(pattern)) :
        SubSeq(text, k + 1, k + Len(pattern)) = pattern

\* String.prototype.endsWith('/')
EndsWithSlash(text) == Len(text) > 0 /\ text[Len(text)] = "/"

\* the number of '/' characters of a token
SlashesIn(tok) == IF tok = "https://" THEN 2 ELSE IF tok = "/" THEN 1 ELSE 0

\* text.split('/').length
RECURSIVE SplitLength(_)
SplitLength(text) ==
    IF text = << >> THEN 1 ELSE SlashesIn(Head(text)) + SplitLength(Tail(text))

\* lines 124-134
excludePatterns ==
    { << "youtube.com" >>, << "youtu.be" >>, << "twitter.com" >>, << "x.com" >>,
      << "facebook.com" >>, << "instagram.com" >>,
      << "linkedin.com", "/", "company" >>, << "linkedin.com", "/", "in", "/" >>,
      << ".pdf" >>, << ".doc" >>, << ".ppt" >>, << "wikipedia.org" >>,
      << "/", "login" >>, << "/", "signup" >>, << "/", "register" >>,
      << "/", "shop" >>, << "/", "product" >>, << "/", "cart" >>,
      << "amazon.com" >>, << "ebay.com" >> }

\* lines 141-145
includePatterns ==
    { << "/", "blog" >>, << "/", "article" >>, << "/", "post" >>, << "/", "news" >>,
      << "/", "guide" >>, << "/", "how-to" >>, << "/", "tutorial" >>,
      << "/", "insights" >>, << "/", "resources" >>, << "/", "learn" >> }

\* line 152
articleKeywords ==
    { << "how", "to" >>, << "guide" >>, << "tips" >>, << "ways" >>, << "best" >>,
      << "top" >>, << "complete" >> }

\* isBlogOrArticle with the acceptance rules tried before the exclusions
isBlogOrArticle_IncludeFirst(url, title) ==
    LET lowerUrl == toLowerCase(url)
        lowerTitle == toLowerCase(title)
    IN  IF \E pattern \in includePatterns : Includes(lowerUrl, pattern) THEN TRUE
        ELSE IF \E kw \in articleKeywords : Includes(lowerTitle, kw) THEN TRUE
        ELSE IF \E pattern \in excludePatterns : Includes(lowerUrl, pattern) THEN FALSE
        ELSE ~EndsWithSlash(lowerUrl) \/ SplitLength(lowerUrl) > 4

\* lines 119-159, for a url and a title that are strings
isBlogOrArticle(url, title) ==
    LET lowerUrl == toLowerCase(url)
        lowerTitle == toLowerCase(title)
    IN  IF \E pattern \in excludePatterns : Includes(lowerUrl, pattern) THEN FALSE
        ELSE IF \E pattern \in includePatterns : Includes(lowerUrl, pattern) THEN TRUE
        ELSE IF \E kw \in articleKeywords : Includes(lowerTitle, kw) THEN TRUE
        ELSE ~EndsWithSlash(lowerUrl) \/ SplitLength(lowerUrl) > 4

\* lines 48 and 102: the candidate is on the product's own site
OwnSite(url) == Includes(toLowerCase(url), << "beyondchats.com" >>)

\* a JavaScript value that is a string, undefined or null
StrVal(text) == [t |-> "string", text |-> text]
Undefined == [t |-> "undefined", text |-> << >>]
NullVal == [t |-> "null", text |-> << >>]

\* what a function call gives: a thrown error or a returned list
Thrown == [thrown |-> TRUE, value |-> << >>]
Returned(list) == [thrown |-> FALSE, value |-> list]

\* Array.prototype.slice(0, count) without the bound
Slice_All(list, count) == list

\* Array.prototype.slice(0, count), count >= 0
Slice(list, count) == SubSeq(list, 1, IF count < Len(list) THEN count ELSE Len(list))

\* isBlogOrArticle(r.link, r.title) throws on url.toLowerCase() or
\* title.toLowerCase() when the link is not a string or the title is null
ItemThrows(r) == r.link.t # "string" \/ r.title.t = "null"

\* line 119: title = '' when the argument is undefined
TitleOrDefault(title) == IF title.t = "undefined" THEN << >> ELSE title.text

\* searchWithSerpAPI, lines 32-57: the body of the try block
searchWithSerpAPITry(resp, count) ==
    IF resp.kind = "fail" THEN Thrown
    ELSE IF resp.organic = "notarray" THEN Thrown
    ELSE LET organic_results == IF resp.organic = "absent" THEN << >> ELSE resp.results
         IN  IF \E k \in 1..Len(organic_results) : ItemThrows(organic_results[k]) THEN Thrown
             ELSE LET IsBlog(r) == isBlogOrArticle(r.link.text, TitleOrDefault(r.title))
                      Foreign(r) == ~OwnSite(r.link.text)
                      sliced == Slice(SelectSeq(SelectSeq(organic_results, IsBlog), Foreign), count)
                  IN  Returned([k \in 1..Len(sliced) |->
                                   [title |-> sliced[k].title, url |-> sliced[k].link.text]])

\* searchWithSerpAPI, lines 58-61, without the call of the fallback
AfterPrimary_NoFallback(r) == "done"

\* searchWithSerpAPI, lines 57-61: return, or catch and call the fallback
AfterPrimary(r) == IF r.thrown THEN "fallback" ELSE "done"

\* the rest of the text after the first occurrence of tok
RECURSIVE After(_, _)
After(text, tok) ==
    IF text = << >> THEN << >>
    ELSE IF Head(text) = tok THEN Tail(text) ELSE After(Tail(text), tok)

\* the text before the first occurrence of tok
RECURSIVE UpTo(_, _)
UpTo(text, tok) ==
    IF text = << >> THEN << >>
    ELSE IF Head(text) = tok THEN << >> ELSE << Head(text) >> \o UpTo(Tail(text), tok)

\* encodeURIComponent, token by token (how a redirect href is built)
EncodeToken(tok) ==
    CASE tok = "https://" -> "https%3A%2F%2F"
      [] tok = "/" -> "%2F"
      [] OTHER -> tok
encodeURIComponent(text) == [k \in 1..Len(text) |-> EncodeToken(text[k])]

\* decodeURIComponent, token by token; a lone "%" is a malformed escape
DecodeToken(tok) ==
    CASE tok = "https%3A%2F%2F" -> "https://"
      [] tok = "%2F" -> "/"
      [] OTHER -> tok
decodeURIComponent(text) == [k \in 1..Len(text) |-> DecodeToken(text[k])]
Malformed(text) == \E k \in 1..Len(text) : text[k] = "%"

\* lines 90-99: the url of a result element, from its href
ResolveHref(href) ==
    IF href.t # "string" THEN [thrown |-> FALSE, url |-> href]
    ELSE LET match == UpTo(After(href.text, "uddg="), "&")
         IN  IF Includes(href.text, << "uddg=" >>) /\ match # << >>
             THEN IF Malformed(match) THEN [thrown |-> TRUE, url |-> Undefined]
                  ELSE [thrown |-> FALSE, url |-> StrVal(decodeURIComponent(match))]
             ELSE [thrown |-> FALSE, url |-> href]

\* line 102
Accept(url, title) ==
    /\ url.t = "string"
    /\ url.text # << >>
    /\ title # << >>
    /\ isBlogOrArticle(url.text, title)
    /\ ~OwnSite(url.text)

\* lines 83-105: the loop over the result elements
RECURSIVE Collect(_, _, _)
Collect(elements, found, count) ==
    IF elements = << >> THEN Returned(found)
    ELSE IF Len(found) >= count + 5 THEN Returned(found)
    ELSE LET e == Head(elements)
             u == ResolveHref(e.href)
         IN  IF u.thrown THEN Thrown
             ELSE Collect(Tail(elements),
                          IF Accept(u.url, e.title)
                          THEN Append(found, [title |-> StrVal(e.title), url |-> u.url.text])
                          ELSE found,
                          count)

\* searchWithDuckDuckGo, lines 69-109: the body of the try block
searchWithDuckDuckGoTry(resp, count) ==
    IF resp.kind = "fail" THEN Thrown
    ELSE LET collected == Collect(resp.elements, << >>, count)
         IN  IF collected.thrown THEN Thrown
             ELSE Returned(Slice(collected.value, count))

\* a catch block that throws again
DuckCatch_Rethrow(r) == r

\* searchWithDuckDuckGo, lines 110-113
DuckCatch(r) == IF r.thrown THEN Returned(<< >>) ELSE r

searchWithDuckDuckGo(resp, count) == DuckCatch(searchWithDuckDuckGoTry(resp, count))

\* searchRelatedArticles, lines 19-24
FirstProvider(key) ==
    IF key \notin { "undefined", "" } /\ key # "your_serpapi_key_here"
    THEN "primary" ELSE "fallback"

(* ---------------- what the search providers can answer ---------------- *)
\* process.env.SERP_API_KEY: unset, empty, the placeholder, a real key
KeyValues == { "undefined", "", "your_serpapi_key_here", "serp-key" }

BlogUrl == << "https://", "example.com", "/", "Blog", "/", "chatbots" >>
VideoUrl == << "https://", "YouTube.com", "/", "watch" >>
ShopBlogUrl == << "https://", "store.com", "/", "shop", "/", "blog" >>
HomeUrl == << "https://", "example.com", "/" >>
SectionUrl == << "https://", "example.com", "/", "about", "/" >>
OwnUrl == << "https://", "BeyondChats.com", "/", "blog", "/", "chatbots" >>
PageUrl == << "https://", "other.com", "/", "page" >>
Urls == { BlogUrl, VideoUrl, ShopBlogUrl, HomeUrl, SectionUrl, OwnUrl, PageUrl }

HowToTitle == << "How", "to", "chat" >>
PlainTitle == << "Pricing" >>
TitleTexts == { HowToTitle, PlainTitle, << >> }

SeqsUpTo(S, n) == UNION { [1..k -> S] : k \in 0..n }

\* the organic_results of the keyed provider
SerpItems ==
    { [link |-> StrVal(BlogUrl), title |-> StrVal(PlainTitle)],
      [link |-> StrVal(VideoUrl), title |-> StrVal(HowToTitle)],
      [link |-> StrVal(ShopBlogUrl), title |-> StrVal(HowToTitle)],
      [link |-> StrVal(HomeUrl), title |-> StrVal(PlainTitle)],
      [link |-> StrVal(OwnUrl), title |-> StrVal(PlainTitle)],
      [link |-> StrVal(PageUrl), title |-> Undefined],
      [link |-> Undefined, title |-> StrVal(PlainTitle)],
      [link |-> StrVal(PageUrl), title |-> NullVal] }

SerpFailed == [kind |-> "fail", organic |-> "absent", results |-> << >>]
SerpResponses ==
    { SerpFailed,
      [kind |-> "ok", organic |-> "absent", results |-> << >>],
      [kind |-> "ok", organic |-> "notarray", results |-> << >>] }
    \cup { [kind |-> "ok", organic |-> "list", results |-> r] : r \in SeqsUpTo(SerpItems, MaxRaw) }

\* the href of a result of the keyless provider: a redirect carrying the url
Redirect(url) ==
    << "//duckduckgo.com/l/?", "uddg=" >> \o encodeURIComponent(url) \o << "&", "rut=1" >>

\* the .result elements of the keyless provider's page
DuckElements ==
    { [href |-> StrVal(Redirect(BlogUrl)), title |-> PlainTitle],
      [href |-> StrVal(Redirect(VideoUrl)), title |-> HowToTitle],
      [href |-> StrVal(ShopBlogUrl), title |-> HowToTitle],
      [href |-> StrVal(Redirect(HomeUrl)), title |-> PlainTitle],
      [href |-> StrVal(Redirect(OwnUrl)), title |-> PlainTitle],
      [href |-> StrVal(Redirect(PageUrl)), title |-> << >>],
      [href |-> Undefined, title |-> PlainTitle],
      [href |-> StrVal(<< "//duckduckgo.com/l/?", "uddg=", "%" >>), title |-> PlainTitle] }

DuckFailed == [kind |-> "fail", elements |-> << >>]
DuckResponses ==
    { DuckFailed } \cup { [kind |-> "ok", elements |-> r] : r \in SeqsUpTo(DuckElements, MaxRaw) }

NoRaw == [kind |-> "none"]

(* ------------------------- contentScraper.js -------------------------- *)
\* An element the page may hold: no such element, or the element with the
\* value getAttribute gives for it (null when the attribute is missing).
NoTag == [tag |-> FALSE, attr |-> NullVal]
Tag(attr) == [tag |-> TRUE, attr |-> attr]

\* new JSDOM(html, { url }) and new URL(url) accept absolute URLs only
IsAbsoluteUrl(url) == Len(url) > 0 /\ url[1] = "https://"

\* a search candidate whose url is not absolute (a bare href of the results page)
RelativeUrl == << "/", "l", "/", "page" >>

\* What the fetch of a candidate's page gives.
\* fetch    : "fail" (axios.get throws: network error, non-2xx, timeout) or "ok"
\* readable : Readability.parse() returns an article (TRUE) or null (FALSE)
\* og       : the meta[property="og:image"] element and its content attribute
\* firstImg : the first img inside article, main or .post-content, and its src
FailedPage == [fetch |-> "fail", readable |-> FALSE, og |-> NoTag, firstImg |-> NoTag]
OgValues == { NoTag, Tag(NullVal), Tag(StrVal(<< "og.png" >>)) }
ImgValues == { NoTag, Tag(StrVal(<< "first.png" >>)) }
Pages == { FailedPage } \cup [fetch : {"ok"}, readable : BOOLEAN, og : OgValues,
                             firstImg : ImgValues]

\* the value scrapeArticleContent returns: a document or null
NullDoc == [kind |-> "null", via |-> "none", image_url |-> NullVal]
Doc(via, image) == [kind |-> "doc", via |-> via, image_url |-> image]

\* fallbackExtraction, lines 94-135: the document has no image_url property
fallbackExtraction(page) == Doc("fallback", Undefined)

\* lines 59-69
ImageUrl(page) ==
    IF page.og.tag THEN page.og.attr
    ELSE IF page.firstImg.tag THEN page.firstImg.attr
    ELSE NullVal

\* scrapeArticleContent, lines 44-89
scrapeArticleContent(url, page) ==
    IF page.fetch = "fail" THEN NullDoc
    ELSE IF ~IsAbsoluteUrl(url) THEN NullDoc
    ELSE IF page.readable THEN Doc("readability", ImageUrl(page))
    ELSE fallbackExtraction(page)

\* the state of the loop of scrapeMultipleArticles: the urls fetched so far,
\* the results pushed so far, and whether an error left the function
ScrapeStart == [calls |-> << >>, results |-> << >>, thrown |-> FALSE]

\* the entry pushed for a candidate and its document, lines 23-29
Scraped(urlInfo, content) ==
    [title |-> urlInfo.title, url |-> urlInfo.url, image_url |-> content.image_url,
     via |-> content.via]

\* one iteration with the log line before the push
ScrapeStep_LogBeforePush(acc, urlInfo, page) ==
    LET content == scrapeArticleContent(urlInfo.url, page)
        called == [acc EXCEPT !.calls = Append(@, urlInfo.url)]
    IN  IF content.kind = "null" THEN called
        ELSE IF urlInfo.title.t # "string" THEN called
        ELSE [called EXCEPT !.results = Append(@, Scraped(urlInfo, content))]

\* lines 19-35: one iteration.  The push comes first; the log line after it
\* throws when the title is not a string, and the catch swallows that.
ScrapeStep(acc, urlInfo, page) ==
    LET content == scrapeArticleContent(urlInfo.url, page)
        called == [acc EXCEPT !.calls = Append(@, urlInfo.url)]
    IN  IF content.kind = "null" THEN called
        ELSE [called EXCEPT !.results = Append(@, Scraped(urlInfo, content))]

\* scrapeMultipleArticles, lines 14-39, over the candidates and the page
\* each one's fetch gives
RECURSIVE ScrapeLoop(_, _, _)
ScrapeLoop(acc, urls, pages) ==
    IF urls = << >> THEN acc
    ELSE ScrapeLoop(ScrapeStep(acc, Head(urls), Head(pages)), Tail(urls), Tail(pages))

scrapeMultipleArticles(urls, pages) == ScrapeLoop(ScrapeStart, urls, pages)

\* the candidates handed to the scraper
Candidates ==
    { [title |-> StrVal(PlainTitle), url |-> BlogUrl],
      [title |-> Undefined, url |-> PageUrl],
      [title |-> StrVal(PlainTitle), url |-> RelativeUrl] }

\* a candidate with the page its fetch gives; a candidate whose url is not
\* absolute is paired with one page only, as no document comes of it
ScrapeCases ==
    { c \in [urlInfo : Candidates, page : Pages] :
        /\ c.urlInfo.url = RelativeUrl =>
              c.page = [fetch |-> "ok", readable |-> TRUE,
                        og |-> Tag(StrVal(<< "og.png" >>)), firstImg |-> NoTag]
        /\ c.urlInfo.url = PageUrl => c.page.firstImg = NoTag /\ c.page.og # Tag(NullVal) }

(* --------------------------- processAll.js ---------------------------- *)
\* The HTML of the references block, as the sequence of its elements; the
\* empty string is the empty sequence.
Element(tag, c) == [tag |-> tag, url |-> c.url, title |-> c.title, image_url |-> c.image_url]

\* generateCitations without the test for an empty list: competitors[0].url
\* is read from undefined
generateCitations_NoEmptyCheck(competitors) ==
    IF competitors = << >> THEN [thrown |-> TRUE, html |-> << >>]
    ELSE IF \E k \in 1..Len(competitors) : ~IsAbsoluteUrl(competitors[k].url)
    THEN [thrown |-> TRUE, html |-> << >>]
    ELSE [thrown |-> FALSE,
          html |-> << Element("section", competitors[1]) >>
                   \o [k \in 1..Len(competitors) |-> Element("card", competitors[k])]
                   \o << Element("button", competitors[1]) >>]

\* generateCitations, lines 246-283; new URL(c.url) throws on a url that is
\* not absolute
generateCitations(competitors) ==
    IF Len(competitors) = 0 THEN [thrown |-> FALSE, html |-> << >>]
    ELSE IF \E k \in 1..Len(competitors) : ~IsAbsoluteUrl(competitors[k].url)
    THEN [thrown |-> TRUE, html |-> << >>]
    ELSE [thrown |-> FALSE,
          html |-> << Element("section", competitors[1]) >>
                   \o [k \in 1..Len(competitors) |-> Element("card", competitors[k])]
                   \o << Element("button", competitors[1]) >>]

\* processArticle, line 321
References(competitors) == [k \in 1..Len(competitors) |-> competitors[k].url]

\* processArticle, lines 336-340
CompetitorRecords(competitors) ==
    [k \in 1..Len(competitors) |->
        [source_url |-> competitors[k].url, title |-> competitors[k].title]]

\* processArticle, lines 321-341: what is assembled from the competitors
AssembleCitations(competitors) ==
    LET citationHtml == generateCitations(competitors)
    IN  [thrown |-> citationHtml.thrown,
         html |-> citationHtml.html,
         references |-> References(competitors),
         competitor_articles |-> CompetitorRecords(competitors)]

NoCitations == [thrown |-> FALSE, html |-> << >>, references |-> << >>,
                competitor_articles |-> << >>]

\* the stages of processArticle in another order
StagesUpTo_EnhanceBeforeAnalysis(n) ==
    SubSeq(<< "search", "scrape", "enhance", "gapAnalysis", "citations", "publish" >>, 1, n)

\* processArticle, lines 292-341: the first n stages, in the order of the calls
StagesUpTo(n) ==
    SubSeq(<< "search", "scrape", "gapAnalysis", "enhance", "citations", "publish" >>, 1, n)

\* the payload without the metadata carried over from the source article
BuildPayload_NoMetadata(article, gapAnalysis, scraped) ==
    [status |-> "updated",
     original_url |-> article.original_url,
     title |-> article.title,
     excerpt |-> 0, author |-> 0, published_at |-> 0, featured_image |-> 0,
     gap_analysis |-> gapAnalysis,
     competitor_articles |-> scraped,
     references |-> scraped]

\* processArticle, lines 325-341: the body of the POST; competitor_articles
\* and references are given by their number
BuildPayload(article, gapAnalysis, scraped) ==
    [status |-> "updated",
     original_url |-> article.original_url,
     title |-> article.title,
     excerpt |-> article.excerpt,
     author |-> article.author,
     published_at |-> article.published_at,
     featured_image |-> article.featured_image,
     gap_analysis |-> gapAnalysis,
     competitor_articles |-> scraped,
     references |-> scraped]

\* processArticle giving up on an item whose gap analysis has the error marker
processArticle_GapErrorFails(article, key, o) ==
    IF o.search = 0
    THEN [trace |-> StagesUpTo(1), posted |-> FALSE, payload |-> NoPayload,
          result |-> [success |-> FALSE, reason |-> MsgNoCompetitors]]
    ELSE IF o.scraped = 0
    THEN [trace |-> StagesUpTo(2), posted |-> FALSE, payload |-> NoPayload,
          result |-> [success |-> FALSE, reason |-> MsgScrapingFailed]]
    ELSE IF initializeClient(key) = "throw"
    THEN [trace |-> StagesUpTo(3), posted |-> FALSE,
          payload |-> NoPayload,
          result |-> [success |-> FALSE, reason |-> MsgConfig]]
    ELSE IF performGapAnalysis(o.gap).error
    THEN [trace |-> StagesUpTo(3), posted |-> FALSE,
          payload |-> NoPayload,
          result |-> [success |-> FALSE, reason |-> MsgGeneration]]
    ELSE IF ~o.enhance
    THEN [trace |-> StagesUpTo(4), posted |-> FALSE,
          payload |-> NoPayload,
          result |-> [success |-> FALSE, reason |-> MsgGeneration]]
    ELSE IF ~o.cite
    THEN [trace |-> StagesUpTo(5),
          posted |-> FALSE, payload |-> NoPayload,
          result |-> [success |-> FALSE, reason |-> MsgInvalidUrl]]
    ELSE LET payload == BuildPayload(article, performGapAnalysis(o.gap), o.scraped)
             tr == StagesUpTo(6)
         IN  IF ~o.publish
             THEN [trace |-> tr, posted |-> FALSE, payload |-> payload,
                   result |-> [success |-> FALSE, reason |-> MsgPublish]]
             ELSE [trace |-> tr, posted |-> TRUE, payload |-> payload,
                   result |-> [success |-> TRUE, reason |-> "none"]]

\* processArticle: the stages it calls, the value it returns and the payload
\* it posts, for one article and one environment outcome
\* processArticle without the two early returns on an empty list
processArticle_NoEmptyChecks(article, key, o) ==
    IF initializeClient(key) = "throw"
    THEN [trace |-> StagesUpTo(3), posted |-> FALSE, payload |-> NoPayload,
          result |-> [success |-> FALSE, reason |-> MsgConfig]]
    ELSE IF ~o.enhance
    THEN [trace |-> StagesUpTo(4), posted |-> FALSE, payload |-> NoPayload,
          result |-> [success |-> FALSE, reason |-> MsgGeneration]]
    ELSE IF ~o.cite
    THEN [trace |-> StagesUpTo(5), posted |-> FALSE, payload |-> NoPayload,
          result |-> [success |-> FALSE, reason |-> MsgInvalidUrl]]
    ELSE LET payload == BuildPayload(article, performGapAnalysis(o.gap), o.scraped)
         IN  IF ~o.publish
             THEN [trace |-> StagesUpTo(6), posted |-> FALSE, payload |-> payload,
                   result |-> [success |-> FALSE, reason |-> MsgPublish]]
             ELSE [trace |-> StagesUpTo(6), posted |-> TRUE, payload |-> payload,
                   result |-> [success |-> TRUE, reason |-> "none"]]

processArticle(article, key, o) ==
    IF o.search = 0
    THEN [trace |-> StagesUpTo(1), posted |-> FALSE, payload |-> NoPayload,
          result |-> [success |-> FALSE, reason |-> MsgNoCompetitors]]
    ELSE IF o.scraped = 0
    THEN [trace |-> StagesUpTo(2), posted |-> FALSE, payload |-> NoPayload,
          result |-> [success |-> FALSE, reason |-> MsgScrapingFailed]]
    ELSE IF initializeClient(key) = "throw"
    THEN [trace |-> StagesUpTo(3), posted |-> FALSE,
          payload |-> NoPayload,
          result |-> [success |-> FALSE, reason |-> MsgConfig]]
    ELSE IF ~o.enhance
    THEN [trace |-> StagesUpTo(4), posted |-> FALSE,
          payload |-> NoPayload,
          result |-> [success |-> FALSE, reason |-> MsgGeneration]]
    ELSE IF ~o.cite
    THEN [trace |-> StagesUpTo(5),
          posted |-> FALSE, payload |-> NoPayload,
          result |-> [success |-> FALSE, reason |-> MsgInvalidUrl]]
    ELSE LET payload == BuildPayload(article, performGapAnalysis(o.gap), o.scraped)
             tr == StagesUpTo(6)
         IN  IF ~o.publish
             THEN [trace |-> tr, posted |-> FALSE, payload |-> payload,
                   result |-> [success |-> FALSE, reason |-> MsgPublish]]
             ELSE [trace |-> tr, posted |-> TRUE, payload |-> payload,
                   result |-> [success |-> TRUE, reason |-> "none"]]

(* ------------------------------ index.js ------------------------------ *)
\* index.js, processArticle, lines 170-182: the body of the POST, without
\* the metadata of the source article
IndexPayload(article, gapAnalysis, scraped) ==
    [status |-> "updated",
     original_url |-> article.original_url,
     title |-> article.title,
     excerpt |-> 0, author |-> 0, published_at |-> 0, featured_image |-> 0,
     gap_analysis |-> gapAnalysis,
     competitor_articles |-> scraped,
     references |-> scraped]

\* index.js, lines 35-86 and 161-182: the workflow after the article is
\* fetched.  An empty search result or an empty list of documents does not
\* stop it; generateCitations of an empty list returns ''.
IndexWorkflow(article, key, o, payload) ==
    IF initializeClient(key) = "throw"
    THEN [trace |-> StagesUpTo(3), posted |-> FALSE, payload |-> NoPayload,
          result |-> [success |-> FALSE, reason |-> MsgConfig]]
    ELSE IF ~o.enhance
    THEN [trace |-> StagesUpTo(4), posted |-> FALSE, payload |-> NoPayload,
          result |-> [success |-> FALSE, reason |-> MsgGeneration]]
    ELSE IF o.scraped > 0 /\ ~o.cite
    THEN [trace |-> StagesUpTo(5), posted |-> FALSE, payload |-> NoPayload,
          result |-> [success |-> FALSE, reason |-> MsgInvalidUrl]]
    ELSE IF ~o.publish
    THEN [trace |-> StagesUpTo(6), posted |-> FALSE, payload |-> payload,
          result |-> [success |-> FALSE, reason |-> MsgPublish]]
    ELSE [trace |-> StagesUpTo(6), posted |-> TRUE, payload |-> payload,
          result |-> [success |-> TRUE, reason |-> "none"]]

\* the article could not be fetched: nothing else is called
NotFetched ==
    [trace |-> << >>, posted |-> FALSE, payload |-> NoPayload,
     result |-> [success |-> FALSE, reason |-> "No articles found"]]

\* index.js, main, lines 24-104; every failure ends in process.exit(1)
indexMain(found, article, key, o) ==
    IF ~found THEN NotFetched
    ELSE IndexWorkflow(article, key, o,
                       BuildPayload(article, performGapAnalysis(o.gap), o.scraped))

\* index.js, processArticle, lines 152-185; every failure is thrown to the caller
indexProcessArticle(found, article, key, o) ==
    IF ~found THEN NotFetched
    ELSE IndexWorkflow(article, key, o,
                       IndexPayload(article, performGapAnalysis(o.gap), o.scraped))

\* the environment outcomes of one article in the single-article flows
IndexOutcomes == { o \in [search : 0..COMPETITOR_COUNT, scraped : 0..COMPETITOR_COUNT,
                          gap : GapResponses, enhance : BOOLEAN, cite : BOOLEAN,
                          publish : BOOLEAN] : o.scraped <= o.search }

\* the articles the single calls are made for
SampleArticles == { ArticleRow(1, 1), ArticleRow(2, NoUrl) }

\* a dedup set filled from the store although the fetch failed
DedupSet_IgnoresFailure(ok, derived) == { u \in Range(derived) : Truthy(u) }

\* a dedup set that is never filled
DedupSet_Empty(ok, derived) == {}

\* main, lines 371-383: the dedup set from the derived articles' original_url
DedupSet(ok, derived) ==
    IF ok THEN { u \in Range(derived) : Truthy(u) } ELSE {}

\* a failed derived-article fetch rejecting main
AfterFetchEnhanced_Abort(ok) == IF ok THEN "loop" ELSE "aborted"

\* main, lines 381-383: a failed derived-article fetch is caught, main goes on
AfterFetchEnhanced(ok) == "loop"

\* a filter that hands the items on in reverse order
FilterArticles_Reversed(arts, dedup) ==
    LET kept == SelectSeq(arts, LAMBDA a : a.original_url \notin dedup)
    IN  [k \in 1..Len(kept) |-> kept[Len(kept) + 1 - k]]

\* no filtering of the fetched originals
FilterArticles_KeepAll(arts, dedup) == arts

\* main, line 386
FilterArticles(arts, dedup) ==
    SelectSeq(arts, LAMBDA a : a.original_url \notin dedup)

\* main, lines 389-394
InitResults(arts, toProcess) ==
    [success |-> 0, failed |-> 0, skipped |-> Len(arts) - Len(toProcess), errors |-> << >>]

\* main, line 405: the title recorded with a failure
ErrorTitle(arts, toProcess, idx) == arts[idx].title

\* accounting that forgets to count a failure
Account_DropFailure(res, result, title) ==
    IF result.success THEN [res EXCEPT !.success = @ + 1] ELSE res

\* accounting that records a fixed text instead of the error's message
Account_LostReason(res, result, title) ==
    IF result.success
    THEN [res EXCEPT !.success = @ + 1]
    ELSE [res EXCEPT !.failed = @ + 1,
                     !.errors = Append(@, [title |-> title, reason |-> "error"])]

\* main, lines 400-408
Account(res, result, title) ==
    IF result.success
    THEN [res EXCEPT !.success = @ + 1]
    ELSE [res EXCEPT !.failed = @ + 1,
                     !.errors = Append(@, [title |-> title, reason |-> result.reason])]

\* a cap test that is off by one
CapReached_OffByOne(res) == res.success > SuccessCap

\* main, line 410
CapReached(res) == res.success >= SuccessCap

\* a pacing delay after every item
ShouldSleep_Always(idx, len) == TRUE

\* main, line 416 (idx is 1-based)
ShouldSleep(idx, len) == idx < len

(* ------------------------------- Init --------------------------------- *)
Init ==
    /\ \E n \in 0..MaxArticles, prefix \in UrlPrefixes :
          originals = [k \in 1..n |->
                          ArticleRow(k, IF k <= Len(prefix) THEN prefix[k] ELSE k)]
    /\ updated = << >>
    /\ keySet \in BOOLEAN
    /\ run = 0
    /\ summaries = 0
    /\ pc = "idle"
    /\ articles = << >>
    /\ alreadyEnhancedUrls = {}
    /\ articlesToProcess = << >>
    /\ i = 1
    /\ results = EmptyResults
    /\ attempted = << >>
    /\ trace = << >>
    /\ published = << >>
    /\ slept = {}
    /\ lastPayload = NoPayload
    /\ lastResult = NoResult
    /\ updatedAtStart = {}
    /\ dedupFetched = FALSE
    /\ faults = 0
    /\ call = NoCall

(* ------------------------------ actions ------------------------------- *)
\* main, line 368: a run starts by fetching the originals; a failure rejects main
FetchAllOriginalArticles(ok) ==
    /\ pc \in {"idle", "done", "aborted"}
    /\ run < MaxRuns
    /\ ok \/ faults < MaxFaults
    /\ run' = run + 1
    /\ faults' = IF ok THEN faults ELSE faults + 1
    /\ articles' = IF ok THEN originals ELSE << >>
    /\ pc' = IF ok THEN "fetched" ELSE "aborted"
    /\ alreadyEnhancedUrls' = {}
    /\ articlesToProcess' = << >>
    /\ i' = 1
    /\ results' = EmptyResults
    /\ attempted' = << >>
    /\ trace' = << >>
    /\ published' = << >>
    /\ slept' = {}
    /\ lastResult' = NoResult
    /\ updatedAtStart' = Range(updated)
    /\ dedupFetched' = FALSE
    /\ UNCHANGED << originals, updated, keySet, summaries, lastPayload, call >>

\* main, lines 370-394: fetch the derived articles, filter, initialise results
FetchEnhanced(ok) ==
    /\ pc = "fetched"
    /\ ok \/ faults < MaxFaults
    /\ faults' = IF ok THEN faults ELSE faults + 1
    /\ dedupFetched' = ok
    /\ alreadyEnhancedUrls' = DedupSet(ok, updated)
    /\ articlesToProcess' = FilterArticles(articles, alreadyEnhancedUrls')
    /\ results' = InitResults(articles, articlesToProcess')
    /\ i' = 1
    /\ pc' = AfterFetchEnhanced(ok)
    /\ UNCHANGED << originals, updated, keySet, run, summaries, articles, attempted, trace,
                    published, slept, lastPayload, lastResult, updatedAtStart, call >>

\* main, lines 397-420: one iteration of the loop
ProcessItem(o) ==
    /\ pc = "loop"
    /\ i <= Len(articlesToProcess)
    /\ o = Nominal \/ faults < MaxFaults
    /\ faults' = IF o = Nominal THEN faults ELSE faults + 1
    /\ LET article == articlesToProcess[i]
           r == processArticle(article, keySet, o)
           res == Account(results, r.result, ErrorTitle(articles, articlesToProcess, i))
       IN  /\ attempted' = Append(attempted, article)
           /\ trace' = r.trace
           /\ lastResult' = r.result
           /\ lastPayload' = IF "publish" \in Range(r.trace) THEN r.payload ELSE lastPayload
           /\ updated' = IF r.posted THEN Append(updated, article.original_url) ELSE updated
           /\ published' = IF r.posted THEN Append(published, article) ELSE published
           /\ results' = res
           /\ IF CapReached(res)
              THEN /\ pc' = "summary"
                   /\ i' = i
                   /\ slept' = slept
              ELSE /\ pc' = "loop"
                   /\ i' = i + 1
                   /\ slept' = IF ShouldSleep(i, Len(articlesToProcess))
                               THEN slept \cup {i} ELSE slept
    /\ UNCHANGED << originals, keySet, run, summaries, articles, alreadyEnhancedUrls,
                    articlesToProcess, updatedAtStart, dedupFetched, call >>

\* main, lines 422-435: the loop is over, the summary is printed
Summary ==
    /\ \/ pc = "summary"
       \/ pc = "loop" /\ i > Len(articlesToProcess)
    /\ pc' = "done"
    /\ summaries' = summaries + 1
    /\ UNCHANGED << originals, updated, keySet, run, articles, alreadyEnhancedUrls,
                    articlesToProcess, i, results, attempted, trace, published, slept,
                    lastPayload, lastResult, updatedAtStart, dedupFetched, faults, call >>

Next ==
    \/ \E ok \in BOOLEAN : FetchAllOriginalArticles(ok)
    \/ \E ok \in BOOLEAN : FetchEnhanced(ok)
    \/ \E o \in Outcomes : ProcessItem(o)
    \/ Summary

Spec == Init /\ [][Next]_vars

(* ----------------- the services, one call at a time -------------------- *)
\* no batch run is in progress; one call of a service is made and studied
InitService == Init /\ originals = << >> /\ keySet

\* performGapAnalysis(originalArticle, competitorArticles) with the
\* credential set or not and one response of the generative service
Analyze(key, resp) ==
    /\ call.fn = "none"
    /\ call' = [fn |-> "performGapAnalysis", key |-> key, resp |-> resp,
                out |-> performGapAnalysisCall(key, resp)]
    /\ UNCHANGED batchVars

\* searchRelatedArticles(title, count), lines 16-24: the provider to ask
SearchBegin(key, count) ==
    /\ call.fn = "none"
    /\ call' = [fn |-> "searchRelatedArticles", key |-> key, count |-> count,
                phase |-> FirstProvider(key), queried |-> << >>,
                primaryError |-> FALSE, raw |-> NoRaw,
                fallbackOut |-> Returned(<< >>), out |-> Returned(<< >>)]
    /\ UNCHANGED batchVars

\* searchWithSerpAPI, lines 31-62: the keyed provider answers
PrimaryResponds(resp) ==
    /\ call.fn = "searchRelatedArticles"
    /\ call.phase = "primary"
    /\ LET r == searchWithSerpAPITry(resp, call.count)
       IN  call' = [call EXCEPT !.queried = Append(@, "primary"),
                                !.primaryError = r.thrown,
                                !.phase = AfterPrimary(r),
                                !.raw = IF r.thrown THEN NoRaw ELSE resp,
                                !.out = r]
    /\ UNCHANGED batchVars

\* searchWithDuckDuckGo, lines 68-114: the keyless provider answers
FallbackResponds(resp) ==
    /\ call.fn = "searchRelatedArticles"
    /\ call.phase = "fallback"
    /\ LET r == searchWithDuckDuckGo(resp, call.count)
       IN  call' = [call EXCEPT !.queried = Append(@, "fallback"),
                                !.phase = "done",
                                !.raw = resp,
                                !.fallbackOut = r,
                                !.out = r]
    /\ UNCHANGED batchVars

\* enhanceArticle(originalArticle, competitorArticles), llmEnhancer.js lines 30-118
Enhance(key, content, ok, where) ==
    /\ call.fn = "none"
    /\ call' = [fn |-> "enhanceArticle", key |-> key, body |-> content, ok |-> ok,
                where |-> where, out |-> enhanceArticle(key, content, ok, where)]
    /\ UNCHANGED batchVars

\* processArticle(article, i, total) of processAll.js, lines 288-350
ProcessOne(article, key, o) ==
    /\ call.fn = "none"
    /\ call' = [fn |-> "processArticle", found |-> TRUE, article |-> article, key |-> key,
                o |-> o, out |-> processArticle(article, key, o)]
    /\ UNCHANGED batchVars

\* main() of index.js, lines 24-104
IndexMain(found, article, key, o) ==
    /\ call.fn = "none"
    /\ call' = [fn |-> "index.main", found |-> found, article |-> article, key |-> key,
                o |-> o, out |-> indexMain(found, article, key, o)]
    /\ UNCHANGED batchVars

\* processArticle(articleId) of index.js, lines 152-185
IndexProcessArticle(found, article, key, o) ==
    /\ call.fn = "none"
    /\ call' = [fn |-> "index.processArticle", found |-> found, article |-> article,
                key |-> key, o |-> o, out |-> indexProcessArticle(found, article, key, o)]
    /\ UNCHANGED batchVars

\* scrapeArticleContent(url), contentScraper.js lines 44-89, for one page
ScrapeOne(url, page) ==
    /\ call.fn = "none"
    /\ call' = [fn |-> "scrapeArticleContent", url |-> url, page |-> page,
                out |-> scrapeArticleContent(url, page)]
    /\ UNCHANGED batchVars

\* scrapeMultipleArticles(urls), contentScraper.js lines 14-39
Scrape(cases) ==
    /\ call.fn = "none"
    /\ LET urls == [k \in 1..Len(cases) |-> cases[k].urlInfo]
           pages == [k \in 1..Len(cases) |-> cases[k].page]
       IN  call' = [fn |-> "scrapeMultipleArticles", urls |-> urls, pages |-> pages,
                    phase |-> "scraped", out |-> scrapeMultipleArticles(urls, pages),
                    citations |-> NoCitations]
    /\ UNCHANGED batchVars

\* processArticle, processAll.js lines 321-341, on the documents scraped
Assemble ==
    /\ call.fn = "scrapeMultipleArticles"
    /\ call.phase = "scraped"
    /\ call' = [call EXCEPT !.phase = "assembled",
                            !.citations = AssembleCitations(call.out.results)]
    /\ UNCHANGED batchVars

\* isBlogOrArticle(url, title), lines 119-159
CheckUrl(url, title) ==
    /\ call.fn = "none"
    /\ call' = [fn |-> "isBlogOrArticle", url |-> url, title |-> title,
                out |-> isBlogOrArticle(url, title)]
    /\ UNCHANGED batchVars

NextService ==
    \/ call.fn = "none" /\ \E key \in BOOLEAN, resp \in AllGapResponses : Analyze(key, resp)
    \/ \E key \in KeyValues, count \in 0..MaxCount : SearchBegin(key, count)
    \/ (call.fn = "searchRelatedArticles" /\ call.phase = "primary")
          /\ \E resp \in SerpResponses : PrimaryResponds(resp)
    \/ (call.fn = "searchRelatedArticles" /\ call.phase = "fallback")
          /\ \E resp \in DuckResponses : FallbackResponds(resp)
    \/ \E url \in Urls, title \in TitleTexts : CheckUrl(url, title)
    \/ \E c \in ScrapeCases : ScrapeOne(c.urlInfo.url, c.page)
    \/ call.fn = "none" /\ \E cases \in SeqsUpTo(ScrapeCases, MaxDocs) : Scrape(cases)
    \/ Assemble
    \/ call.fn = "none" /\ \E article \in SampleArticles, key \in BOOLEAN, o \in Outcomes :
          ProcessOne(article, key, o)
    \/ call.fn = "none" /\ \E found \in BOOLEAN, article \in SampleArticles, key \in BOOLEAN,
                               o \in IndexOutcomes : IndexMain(found, article, key, o)
    \/ call.fn = "none" /\ \E found \in BOOLEAN, article \in SampleArticles, key \in BOOLEAN,
                               o \in IndexOutcomes : IndexProcessArticle(found, article, key, o)
    \/ \E key \in BOOLEAN, content \in SeqsUpTo(Blocks, MaxBlocks), ok \in BOOLEAN :
          \E where \in SUBSET (1..(Len(content) + 1)) : Enhance(key, content, ok, where)

ServiceSpec == InitService /\ [][NextService]_vars

\* fairness: main is one sequential async function, every awaited call
\* returns or throws within its timeout, so a started run keeps stepping
InitLive == Init /\ Len(originals) <= MaxLiveArticles

LiveSpec == /\ InitLive /\ [][Next]_vars
            /\ WF_vars(\E ok \in BOOLEAN : FetchEnhanced(ok))
            /\ WF_vars(\E o \in Outcomes : ProcessItem(o))
            /\ WF_vars(Summary)

(* ============================== claims ================================ *)
Succeeded == results.success
Failed == results.failed
Skipped == results.skipped
Total == Len(articles)
Unattempted == Len(articlesToProcess) - Len(attempted)
NoViableInput == { MsgNoCompetitors, MsgScrapingFailed }
ExceptionMsgs == { MsgConfig, MsgGeneration, MsgInvalidUrl, MsgPublish }

\* C1 (as stated): in every run that reaches its summary,
\* succeeded + failed + skipped equals the number of fetched originals.
C1_SumEqualsTotal ==
    pc = "done" => Succeeded + Failed + Skipped = Total

\* C1 (amended): in every run that reaches its summary, succeeded + failed +
\* skipped equals the number of fetched originals minus the items the success
\* cap left unattempted; every attempted item is counted once, as succeeded
\* or as failed, and every original removed by dedup once, as skipped.
C1_SumEqualsTotalMinusUnattempted ==
    pc = "done" =>
        /\ Succeeded + Failed + Skipped = Total - Unattempted
        /\ Succeeded = Len(published)
        /\ Failed = Len(attempted) - Len(published)
        /\ Failed = Len(results.errors)
        /\ Skipped = Total - Len(articlesToProcess)
        /\ (Succeeded < SuccessCap => Unattempted = 0)

C1_Witness ==
    /\ pc = "done"
    /\ Unattempted > 0
    /\ Succeeded + Failed + Skipped < Total

\* C2: an item with zero candidates or zero extracted documents increments
\* skipped, leaves failed alone and is not added to the failure list.
C2_NoViableInputIsSkipped ==
    [][ (pc = "loop" /\ attempted' # attempted /\ lastResult'.reason \in NoViableInput)
          => /\ results'.skipped = results.skipped + 1
             /\ results'.failed = results.failed
             /\ results'.errors = results.errors ]_vars

C5_CapStopsTheRun ==
    /\ Succeeded <= SuccessCap
    /\ (Succeeded >= SuccessCap => pc \in {"summary", "done"})
    /\ (Succeeded >= SuccessCap /\ pc \in {"summary", "done"}) =>
          /\ Last(attempted) = Last(published)
          /\ Succeeded + Failed = Len(attempted)
          /\ Skipped = Total - Len(articlesToProcess)

C5_Witness ==
    /\ pc = "done"
    /\ Succeeded = SuccessCap
    /\ Unattempted > 0

\* C6: the pacing delay runs after an attempted item exactly when another
\* item is attempted after it: between every two consecutive attempts,
\* whatever the outcome, and never after the last attempt of the run.
C6_DelayBetweenItemsOnly ==
    pc \in {"loop", "summary", "done"} =>
        slept = IF pc = "loop" /\ i <= Len(articlesToProcess)
                THEN 1..Len(attempted)
                ELSE 1..(Len(attempted) - 1)

C6_Witness ==
    /\ pc = "done"
    /\ Succeeded = SuccessCap
    /\ Failed >= 1
    /\ slept # {}

\* C7: an exception thrown while an item is processed is caught in that
\* item: the item is counted as failed with the error's message as reason,
\* and the loop goes on, so a run that does not reach the cap attempts
\* every item of its processing list.
C7_ExceptionFailsOnlyItsItem ==
    /\ (attempted # << >> /\ lastResult.reason \in ExceptionMsgs) =>
          /\ pc \in {"loop", "done"}
          /\ Failed >= 1
          /\ Last(results.errors).reason = lastResult.reason
          /\ Succeeded + Failed = Len(attempted)
          /\ (pc = "loop" => i = Len(attempted) + 1)
    /\ (pc = "done" /\ Succeeded < SuccessCap) =>
          Len(attempted) = Len(articlesToProcess)

C7_Witness ==
    /\ pc = "done"
    /\ Failed = 1
    /\ results.errors[1].reason = MsgPublish
    /\ attempted[1] \notin Range(published)
    /\ lastResult.success
    /\ Len(attempted) >= 3

\* C8: an entry of the failure list carries the title of the item that
\* failed, with that item's reason.
C8_FailureListNamesTheFailedItem ==
    (attempted # << >> /\ ~lastResult.success) =>
        Last(results.errors) = [title |-> Last(attempted).title,
                                reason |-> lastResult.reason]

C10_SummaryUnlessSourceFetchFails ==
    /\ [][ pc' = "aborted" => (pc \in {"idle", "done", "aborted"} /\ run' = run + 1) ]_vars
    /\ [](pc = "fetched" => <>(pc = "done"))

C10_Witness ==
    /\ pc = "done"
    /\ run = 2
    /\ ~dedupFetched
    /\ Succeeded >= 1

(* ------------------------- performGapAnalysis ------------------------- *)
Analyzed == call.fn = "performGapAnalysis" /\ ~call.out.thrown
ListFields == { "missing", "improve", "strengths", "keywords_missing", "recommendations" }
IsInteger0to10(val) ==
    val.t = "num" /\ val.tenths % 10 = 0 /\ val.tenths >= 0 /\ val.tenths <= 100
\* the response did not yield a JSON object: the request failed, the text is
\* not JSON once the fences are stripped, or it is the JSON null
NotComputed(resp) ==
    \/ resp.kind = "fail"
    \/ CleanAnalysisText(resp.text) # << "BODY" >>
    \/ ParsedJson(resp) # "object"

\* C11: the overall_score of every result of performGapAnalysis is an
\* integer between 0 and 10.
C11_ScoreIsInteger0to10 ==
    Analyzed => IsInteger0to10(call.out.value.overall_score)

GapFaultOutcomes ==
    { o \in [search : 1..COMPETITOR_COUNT, scraped : 1..COMPETITOR_COUNT,
             gap : { FailedCall, MalformedGap }, enhance : {TRUE}, cite : {TRUE},
             publish : BOOLEAN] : o.scraped <= o.search }

\* C15: an item whose gap analysis reply is malformed or whose gap analysis
\* request fails is neither skipped nor failed for it: enhancement is still
\* invoked, and when enhancement, citations and publish succeed the item is
\* published with the default gap analysis and counted as succeeded.
C15_GapFailureDoesNotFailTheItem ==
    [][(pc = "loop" /\ keySet /\ faults' = faults + 1) =>
          \A o \in GapFaultOutcomes :
              \/ /\ "enhance" \in Range(trace')
                 /\ results'.skipped = results.skipped
                 /\ (o.enhance /\ o.cite /\ o.publish) =>
                       /\ lastResult'.success
                       /\ results'.success = results.success + 1
                       /\ results'.failed = results.failed
                       /\ published' # << >>
                       /\ Last(published') = articlesToProcess[i]
                       /\ lastPayload'.gap_analysis = DefaultAnalysis
              \/ ~ProcessItem(o)]_vars

C15_Witness ==
    /\ keySet
    /\ lastResult.success
    /\ "enhance" \in Range(trace)
    /\ lastPayload.gap_analysis.error
    /\ results.success > 0
    /\ results.failed = 0 /\ results.skipped = 0

(* ------------------------ searchRelatedArticles ----------------------- *)
Searching == call.fn = "searchRelatedArticles"
SearchDone == Searching /\ call.phase = "done"
\* a real key is configured: neither missing nor the placeholder
KeyConfigured(key) == key \notin { "undefined", "", "your_serpapi_key_here" }
\* the url matches one of the known non-article patterns
NonArticleUrl(url) == \E pattern \in excludePatterns : Includes(toLowerCase(url), pattern)

\* C16: with a real key the keyed provider is queried first; the keyless
\* provider is queried if and only if the key is missing or the placeholder,
\* or the keyed provider's call raised an error; after an error of the keyed
\* provider the result returned is the keyless provider's.
C16_PrimaryFirstFallbackOnError ==
    Searching =>
        /\ (KeyConfigured(call.key) /\ call.queried = << >>) => call.phase = "primary"
        /\ (KeyConfigured(call.key) /\ call.queried # << >>) => call.queried[1] = "primary"
        /\ call.phase = "done" =>
              (("fallback" \in Range(call.queried))
                  <=> (~KeyConfigured(call.key) \/ call.primaryError))
        /\ (call.phase = "done" /\ call.primaryError) =>
              /\ call.queried = << "primary", "fallback" >>
              /\ call.out = call.fallbackOut

C16_Witness ==
    /\ SearchDone
    /\ KeyConfigured(call.key)
    /\ call.primaryError
    /\ call.queried = << "primary", "fallback" >>
    /\ call.out.value # << >>

\* C17: searchRelatedArticles never throws: whatever the providers answer,
\* failures and malformed answers included, it returns a list, and the list
\* is empty when the provider that answered last yields no candidate.
C17_SearchNeverThrows ==
    SearchDone =>
        /\ ~call.out.thrown
        /\ (Last(call.queried) = "fallback"
              /\ (call.raw.kind = "fail" \/ searchWithDuckDuckGoTry(call.raw, call.count).thrown
                    \/ \A k \in 1..Len(call.raw.elements) :
                          ~ResolveHref(call.raw.elements[k].href).thrown
                          /\ ~Accept(ResolveHref(call.raw.elements[k].href).url,
                                     call.raw.elements[k].title)))
              => call.out.value = << >>
        /\ (Last(call.queried) = "primary"
              /\ (call.raw.organic = "absent" \/ call.raw.results = << >>))
              => call.out.value = << >>

C17_Witness ==
    /\ SearchDone
    /\ call.queried = << "primary", "fallback" >>
    /\ call.raw = DuckFailed
    /\ call.out = Returned(<< >>)

\* C18: the list returned by searchRelatedArticles(topic, count) has at most
\* count candidates, for every count >= 0, every provider and every number
\* of raw results.
C18_AtMostCount ==
    SearchDone => Len(call.out.value) <= call.count

C18_Witness ==
    /\ SearchDone
    /\ call.count = 1
    /\ Last(call.queried) = "primary"
    /\ call.raw.results = [k \in 1..MaxRaw |->
                              [link |-> StrVal(BlogUrl), title |-> StrVal(PlainTitle)]]
    /\ Len(call.out.value) = 1

\* C19: no two candidates of the list returned by searchRelatedArticles have
\* the same URL.
C19_NoDuplicateUrl ==
    SearchDone =>
        \A j, k \in 1..Len(call.out.value) :
            j # k => call.out.value[j].url # call.out.value[k].url

\* C20: no candidate returned by searchRelatedArticles has a URL matching a
\* non-article pattern, and isBlogOrArticle rejects a URL matching one
\* whatever else the URL or the title contains.
C20_ExclusionTakesPrecedence ==
    /\ SearchDone => \A k \in 1..Len(call.out.value) : ~NonArticleUrl(call.out.value[k].url)
    /\ (call.fn = "isBlogOrArticle" /\ NonArticleUrl(call.url)) => ~call.out

C20_Witness ==
    /\ call.fn = "isBlogOrArticle"
    /\ call.url = ShopBlogUrl
    /\ call.title = HowToTitle
    /\ Includes(toLowerCase(call.url), << "/", "blog" >>)
    /\ ~call.out

(* ----------------------- scrapeMultipleArticles ----------------------- *)
ScrapedAll == call.fn = "scrapeMultipleArticles"
\* the candidates whose extraction returned a document, in input order
RECURSIVE KeptCandidates(_, _)
KeptCandidates(urls, pages) ==
    IF urls = << >> THEN << >>
    ELSE (IF scrapeArticleContent(Head(urls).url, Head(pages)).kind = "doc"
          THEN << Head(urls) >> ELSE << >>)
         \o KeptCandidates(Tail(urls), Tail(pages))

\* C21: scrapeMultipleArticles calls the extractor exactly once per
\* candidate, in input order, never throws, and returns exactly the
\* candidates whose extraction returned a document, in input order.
C21_OnceEachInOrder ==
    ScrapedAll =>
        /\ ~call.out.thrown
        /\ call.out.calls = [k \in 1..Len(call.urls) |-> call.urls[k].url]
        /\ [k \in 1..Len(call.out.results) |->
               [title |-> call.out.results[k].title, url |-> call.out.results[k].url]]
           = KeptCandidates(call.urls, call.pages)

C21_Witness ==
    /\ ScrapedAll
    /\ Len(call.urls) = 2
    /\ call.pages[1] = FailedPage
    /\ call.urls[2].title = Undefined
    /\ Len(call.out.calls) = 2
    /\ Len(call.out.results) = 1
    /\ call.out.results[1].url = call.urls[2].url

(* ------------------------ scrapeArticleContent ------------------------ *)
\* the lead image the page offers: the og:image meta tag's image, otherwise
\* the first image inside a content container, otherwise none
ExpectedLeadImage(page) ==
    IF page.og.tag /\ page.og.attr.t = "string" THEN page.og.attr.text
    ELSE IF page.firstImg.tag /\ page.firstImg.attr.t = "string" THEN page.firstImg.attr.text
    ELSE << >>
\* the lead image of a document, none when the property is null or missing
LeadImage(doc) == IF doc.image_url.t = "string" THEN doc.image_url.text ELSE << >>

\* C22: the lead image of every document, whether from the readability
\* extraction or from the manual fallback extraction, is the page's og:image
\* when it has one and otherwise the first image in a content container.
C22_LeadImagePrefersOgImage ==
    (call.fn = "scrapeArticleContent" /\ call.out.kind = "doc") =>
        LeadImage(call.out) = ExpectedLeadImage(call.page)

(* ------------------------- citation assembly -------------------------- *)
Assembled == call.fn = "scrapeMultipleArticles" /\ call.phase = "assembled"
Cards(html) == SelectSeq(html, LAMBDA e : e.tag = "card")

\* C24: citation assembly gives one citation record and one reference entry
\* per extracted competitor document, in the competitors' order; for no
\* competitor the references block is the empty string and the list of
\* citation records is empty.
C24_OneCitationPerCompetitor ==
    Assembled =>
        LET docs == call.out.results
            c == call.citations
        IN  /\ ~c.thrown
            /\ Len(c.competitor_articles) = Len(docs)
            /\ Len(c.references) = Len(docs)
            /\ Len(Cards(c.html)) = Len(docs)
            /\ \A k \in 1..Len(docs) :
                  /\ c.competitor_articles[k].source_url = docs[k].url
                  /\ c.competitor_articles[k].title = docs[k].title
                  /\ c.references[k] = docs[k].url
                  /\ Cards(c.html)[k].url = docs[k].url
            /\ docs = << >> => c.html = << >> /\ c.competitor_articles = << >>

C24_Witness ==
    /\ Assembled
    /\ Len(call.out.results) = 2
    /\ call.out.results[1].url # call.out.results[2].url
    /\ Len(call.citations.competitor_articles) = 2
    /\ Len(call.citations.html) = 4

(* --------------------------- enhanceArticle --------------------------- *)
\* removing the marked insertions from a content
StripMarks(content) == SelectSeq(content, LAMBDA b : b # "MARK")

\* C23: with a generator that returns the body it is given with only marked
\* paragraphs inserted, removing the marked insertions from the content
\* enhanceArticle returns gives back the source article's content.
C23_StrippingMarksGivesOriginal ==
    (call.fn = "enhanceArticle" /\ ~call.out.thrown) =>
        StripMarks(call.out.content) = call.body

\* the batch's processArticle was called for one article
ProcessedOne == call.fn = "processArticle"

\* the call reached the POST of the payload
PublishCalled == "publish" \in Range(call.out.trace)

\* C25: every payload the batch posts has status 'updated', carries the
\* source article's original_url, excerpt, author, published_at and
\* featured_image unchanged, the gap analysis exactly as the analyzer
\* returned it, and one competitor record for each extracted document.
C25_PayloadCarriesSourceAndAnalysis ==
    (ProcessedOne /\ PublishCalled) =>
        /\ call.out.payload.status = "updated"
        /\ call.out.payload.original_url = call.article.original_url
        /\ call.out.payload.excerpt = call.article.excerpt
        /\ call.out.payload.author = call.article.author
        /\ call.out.payload.published_at = call.article.published_at
        /\ call.out.payload.featured_image = call.article.featured_image
        /\ call.out.payload.gap_analysis = performGapAnalysis(call.o.gap)
        /\ call.out.payload.competitor_articles = call.o.scraped

\* a payload with a defaulted analysis and a null featured_image was posted
C25_Witness ==
    /\ ProcessedOne /\ call.out.posted
    /\ call.o.gap # NominalGap
    /\ call.article.featured_image = 0
    /\ call.article.excerpt # 0
    /\ call.o.scraped = COMPETITOR_COUNT

\* C27: for one item the stages run in the order discovery, extraction, gap
\* analysis, enhancement, citation assembly, publish; a stage is invoked only
\* if every earlier stage returned usable output without throwing; publish is
\* invoked at most once.
C27_StagesInOrderEachAfterSuccess ==
    ProcessedOne =>
        LET stages == call.out.trace
            stageOrder == << "search", "scrape", "gapAnalysis", "enhance", "citations", "publish" >>
            Invoked(stage) == stage \in Range(stages)
        IN  /\ Len(stages) \in 1..6
            /\ \A n \in 1..Len(stages) : stages[n] = stageOrder[n]
            /\ Invoked("scrape") <=> call.o.search > 0
            /\ Invoked("gapAnalysis") <=> (Invoked("scrape") /\ call.o.scraped > 0)
            /\ Invoked("enhance") <=> (Invoked("gapAnalysis") /\ call.key)
            /\ Invoked("citations") <=> (Invoked("enhance") /\ call.o.enhance)
            /\ Invoked("publish") <=> (Invoked("citations") /\ call.o.cite)
            /\ Cardinality({ n \in 1..Len(stages) : stages[n] = "publish" }) <= 1

\* all six stages ran for an item whose gap analysis was defaulted
C27_Witness ==
    /\ ProcessedOne
    /\ Len(call.out.trace) = 6
    /\ call.o.gap # NominalGap

\* one of the single-article flows of index.js was called
IndexCalled == call.fn \in {"index.main", "index.processArticle"}

\* discovery returned no candidate, or extraction returned no document
NoCompetitors == call.o.search = 0 \/ call.o.scraped = 0

\* C28 as stated: in every entry point (the batch, and main and
\* processArticle of index.js) publish is never called for an article whose
\* discovery returned no candidates or whose extraction yielded no document.
C28_NoPublishWithoutCompetitors ==
    ((ProcessedOne \/ IndexCalled) /\ NoCompetitors) => ~PublishCalled

\* C28, amended: the batch never calls publish for an article without
\* candidates or without extracted documents; main and processArticle of
\* index.js have no such check and, when the article is fetched and the
\* analysis and enhancement calls succeed, publish it with no competitor.
C28_OnlyTheBatchChecksForCompetitors ==
    /\ (ProcessedOne /\ NoCompetitors) =>
           /\ ~PublishCalled
           /\ ~call.out.posted
           /\ call.out.result.reason \in {MsgNoCompetitors, MsgScrapingFailed}
    /\ (IndexCalled /\ call.found /\ call.o.scraped = 0 /\ call.key /\ call.o.enhance) =>
           /\ PublishCalled
           /\ call.out.payload.competitor_articles = 0
           /\ call.out.posted = call.o.publish

\* the batch found candidates, extracted none of them and posted nothing
C28_Witness ==
    /\ ProcessedOne
    /\ call.o.search > 0 /\ call.o.scraped = 0
    /\ call.key /\ call.o.publish
    /\ ~call.out.posted

\* s can be obtained from t by deleting elements, keeping the order
RECURSIVE IsSubsequence(_, _)
IsSubsequence(s, t) ==
    IF s = << >> THEN TRUE
    ELSE IF t = << >> THEN FALSE
    ELSE IF Head(s) = Head(t) THEN IsSubsequence(Tail(s), Tail(t))
    ELSE IsSubsequence(s, Tail(t))

\* C26: the batch processes the items one at a time in input order: the
\* items attempted so far are the first ones of the dedup-filtered list, which
\* keeps the order of the fetched list, and the published items are a
\* subsequence of the dedup-filtered list in the same order.
C26_OneAtATimeInInputOrder ==
    pc \in {"loop", "summary", "done"} =>
        /\ attempted = SubSeq(articlesToProcess, 1, Len(attempted))
        /\ pc = "loop" => Len(attempted) = i - 1
        /\ articlesToProcess =
               SelectSeq(articles, LAMBDA a : a.original_url \notin alreadyEnhancedUrls)
        /\ IsSubsequence(articlesToProcess, articles)
        /\ IsSubsequence(published, attempted)

\* some items were filtered out and two of the others were published
C26_Witness ==
    /\ pc \in {"loop", "summary", "done"}
    /\ Len(articlesToProcess) < Len(articles)
    /\ Len(published) >= 2

\* C29: the dedup set is computed once, before the first item, and is not
\* updated during the run; when the fetch of the derived articles fails the
\* run goes on with an empty dedup set, every fetched original on the
\* processing list, and skipped = 0.
C29_DedupSetFixedAndEmptyOnFailure ==
    [][ /\ pc \in {"loop", "summary"} =>
              /\ alreadyEnhancedUrls' = alreadyEnhancedUrls
              /\ articlesToProcess' = articlesToProcess
        /\ pc = "fetched" =>
              /\ pc' = "loop"
              /\ articles' = articles
              /\ ~dedupFetched' =>
                    /\ alreadyEnhancedUrls' = {}
                    /\ articlesToProcess' = articles
                    /\ results'.skipped = 0
        /\ (pc' \in {"loop", "summary", "done"} /\ ~dedupFetched') =>
              /\ alreadyEnhancedUrls' = {}
              /\ articlesToProcess' = articles'
              /\ results'.skipped = 0 ]_vars

\* the fetch of the derived articles failed on a store that has some, and the
\* run published an article whose derived article the store already had
C29_Witness ==
    /\ pc = "loop"
    /\ ~dedupFetched
    /\ updatedAtStart # {}
    /\ alreadyEnhancedUrls = {}
    /\ published # << >>
    /\ Last(published).original_url \in updatedAtStart

\* no two derived articles of the store have the same original_url
NoTwoDerivedOfOneUrl(derived) ==
    \A j, k \in 1..Len(derived) : j # k => derived[j] # derived[k]

\* the original_url values of the source articles are non-empty and distinct
DistinctSourceUrls ==
    /\ \A k \in 1..Len(originals) : Truthy(originals[k].original_url)
    /\ \A j, k \in 1..Len(originals) :
          j # k => originals[j].original_url # originals[k].original_url

\* the derived articles the store held when the current run started
UpdatedAtRunStart == SubSeq(updated, 1, Len(updated) - Len(published))

\* C30 as stated: from a store with no derived article, after runs in which
\* no call failed (so both initial fetches of every run succeeded), the store
\* never holds two derived articles with the same original_url.
C30_NoTwoDerivedOfOneUrl ==
    faults = 0 => NoTwoDerivedOfOneUrl(updated)

\* C30, amended: when the source articles' original_url values are non-empty
\* and pairwise distinct, a run whose two initial fetches both succeeded and
\* that started on a store without two derived articles of one original_url
\* never gives the store two derived articles of one original_url.
C30_NoTwoDerivedOfOneUrlWhenSourcesDistinct ==
    ( /\ pc \in {"loop", "summary", "done"}
      /\ dedupFetched
      /\ DistinctSourceUrls
      /\ NoTwoDerivedOfOneUrl(UpdatedAtRunStart) )
    => NoTwoDerivedOfOneUrl(updated)

\* a second run skipped the derived articles of the first and published more
C30_Witness ==
    /\ run = 2
    /\ dedupFetched
    /\ DistinctSourceUrls
    /\ UpdatedAtRunStart # << >>
    /\ NoTwoDerivedOfOneUrl(UpdatedAtRunStart)
    /\ Skipped > 0
    /\ published # << >>

====
